---- MODULE Spec2Model ----
(***************************************************************************)
(* Model of tensorflow_addons/image/threshold_ops.py: basic_threshold,     *)
(* adaptive_threshold and otsu_thresholding.                               *)
(*                                                                         *)
(* One behaviour is one call.  Init draws the function called, the image   *)
(* and the scalar argument; the actions follow the body of the function.   *)
(* Arithmetic is exact: a mean or a variance is kept as the rational it    *)
(* denotes and compared by cross-multiplication.                           *)
(***************************************************************************)
EXTENDS Integers, Sequences, FiniteSets

\* ------------------------------------------------------------------ bounds
\* An image has at most MaxPixels positions (rows * columns).
MaxPixels == 6
\* Windows range from -NegWindows up to one more than the larger dimension.
NegWindows == 1

\* ------------------------------------------------------- program constants
NumBins == 256
White == 255
Black == 0
Channels == 3

\* -------------------------------------------------------------- the inputs
Min(a, b) == IF a < b THEN a ELSE b
Max(a, b) == IF a > b THEN a ELSE b

Palettes == {{0, 1, 3}, {10, 240}}
ChannelPalette == {<<10, 10, 10>>, <<255, 0, 0>>}
ThresholdValues == {-1, 0, 1, 3, 10, 100, 240}

Shapes2 == {s \in (1..MaxPixels) \X (1..MaxPixels) : s[1] * s[2] <= MaxPixels}

Grid(h, w) == (0..(h - 1)) \X (0..(w - 1))

\* rank-2 images (H x W), rank-3 images (H x W x 3), and rank-1 arrays
Images2 ==
  UNION {UNION {{[shape |-> s, px |-> f] : f \in [Grid(s[1], s[2]) -> P]}
                : P \in Palettes} : s \in Shapes2}
Images3 ==
  UNION {{[shape |-> <<s[1], s[2], Channels>>, px |-> f] :
            f \in [Grid(s[1], s[2]) -> ChannelPalette]}
         : s \in {q \in Shapes2 : q[1] * q[2] <= 4}}
Images1 ==
  UNION {{[shape |-> <<n>>, px |-> f] : f \in [{<<x>> : x \in 0..(n - 1)} -> {0, 1}]}
         : n \in 1..2}

Rank(img) == Len(img.shape)

\* a scalar argument: a Python int, or a float (isinstance(x, int) is False)
IntArg(v) == [type |-> "int", val |-> v]
FloatArg(v) == [type |-> "float", val |-> v]
NoArg == [type |-> "none", val |-> 0]
IsInt(a) == a.type = "int"

Windows(img) ==
  LET m == IF Rank(img) = 1 THEN img.shape[1] ELSE Max(img.shape[1], img.shape[2])
  IN {IntArg(v) : v \in (0 - NegWindows)..(m + 1)} \cup {FloatArg(1)}

Thresholds == {IntArg(v) : v \in ThresholdValues} \cup {FloatArg(1)}

\* ------------------------------------------------------------------- state
VARIABLES fn, image, arg, pc, raised, final,
          i, j, r1, tiles,
          spre, sw, current_max, threshold

vars == <<fn, image, arg, pc, raised, final, i, j, r1, tiles,
          spre, sw, current_max, threshold>>

NoOutput == <<>>
NoError == "none"
Zero == <<0, 1>>
NoSums == <<>>

Functions == {"basic_threshold", "adaptive_threshold", "otsu_thresholding"}

\* the state at the call of one of the functions F
Called(F) ==
  /\ fn \in F
  /\ image \in Images1 \cup Images2 \cup Images3
  /\ arg \in CASE fn = "basic_threshold" -> Thresholds
               [] fn = "adaptive_threshold" -> Windows(image)
               [] OTHER -> {NoArg}
  /\ pc = "start"
  /\ raised = NoError
  /\ final = NoOutput
  /\ i = 0 /\ j = 0 /\ r1 = 0
  /\ tiles = <<>>
  /\ spre = NoSums /\ sw = NoSums
  /\ current_max = Zero
  /\ threshold = 0

Init == Called(Functions)

\* ----------------------------------------------------------------- helpers
RECURSIVE SumOver(_, _)
SumOver(S, f) ==
  IF S = {} THEN 0
  ELSE LET p == CHOOSE q \in S : TRUE IN f[p] + SumOver(S \ {p}, f)

\* tf.image.rgb_to_grayscale on 8-bit channels: luminance weights
\* 0.2989, 0.5870, 0.1140 on the [0,1] scale, back to 8 bits by * 255.5
\* and truncation.
Luminance(ch) == ((2989 * ch[1] + 5870 * ch[2] + 1140 * ch[3]) * 511) \div 5100000

\* rank 3 -> rank 2: grayscale, then squeeze the channel axis
Grayscale(img) ==
  [shape |-> <<img.shape[1], img.shape[2]>>,
   px |-> [p \in DOMAIN img.px |-> Luminance(img.px[p])]]

\* variant: the comparison admits equality
WhereGreater_Inclusive(img, t) ==
  [p \in DOMAIN img.px |-> IF img.px[p] >= t THEN White ELSE Black]

\* tf.where(image > threshold, 255, 0)
WhereGreater(img, t) == [p \in DOMAIN img.px |-> IF img.px[p] > t THEN White ELSE Black]

Raise(msg) ==
  /\ pc' = "raised"
  /\ raised' = msg

\* ---------------------------------------------------------- basic_threshold
BasicCall ==
  /\ fn = "basic_threshold" /\ pc = "start"
  /\ IF Rank(image) # 2 /\ Rank(image) # 3
       THEN Raise("rank") /\ UNCHANGED final
     ELSE IF ~IsInt(arg)
       THEN Raise("threshold_type") /\ UNCHANGED final
     ELSE /\ final' = WhereGreater(IF Rank(image) = 3 THEN Grayscale(image) ELSE image,
                                   arg.val)
          /\ pc' = "done"
          /\ UNCHANGED raised
  /\ UNCHANGED <<fn, image, arg, i, j, r1, tiles, spre, sw, current_max, threshold>>

\* ------------------------------------------------------- adaptive_threshold
\* Python's range(lo, hi) and the index set of the slice [lo:hi] of an axis
\* of length n (a negative bound counts from the end, both are clamped).
Range(lo, hi) == lo..(hi - 1)
PyIndex(k, n) == IF k < 0 THEN Max(k + n, 0) ELSE Min(k, n)
SliceIdx(lo, hi, n) == {x \in 0..(n - 1) : PyIndex(lo, n) <= x /\ x < PyIndex(hi, n)}

r == image.shape[1]
c == image.shape[2]
window == arg.val

\* variant: the window is checked against the larger dimension
WindowTooLarge_Max == window > Max(r, c)

\* if window > min(r, c): raise
WindowTooLarge == window > Min(r, c)

AdaptiveCall ==
  /\ fn = "adaptive_threshold" /\ pc = "start"
  /\ IF Rank(image) # 2 /\ Rank(image) # 3
       THEN Raise("rank") /\ UNCHANGED final
     ELSE IF ~IsInt(arg)
       THEN Raise("window_type") /\ UNCHANGED final
     ELSE IF Len(image.shape) # 2
       THEN Raise("unpack") /\ UNCHANGED final
     ELSE IF WindowTooLarge
       THEN Raise("window_size") /\ UNCHANGED final
     ELSE /\ final' = [p \in Grid(r, c) |-> 0]
          /\ pc' = "outer"
          /\ UNCHANGED raised
  /\ i' = 0
  /\ UNCHANGED <<fn, image, arg, j, r1, tiles, spre, sw, current_max, threshold>>

\* while i < r: j = 0; r1 = min(i + window, r)
RowBegin ==
  /\ fn = "adaptive_threshold" /\ pc = "outer"
  /\ i < r
  /\ j' = 0
  /\ r1' = Min(i + window, r)
  /\ pc' = "inner"
  /\ UNCHANGED <<fn, image, arg, raised, final, i, tiles, spre, sw, current_max, threshold>>

\* variant: the right edge of the tile is not clamped to the image
c1_Unclamped == j + window

\* the tile at (i, j): the slice cur, and the index list ind built from
\* range(i, r1) and range(j, c1)
c1 == Min(j + window, c)
CurIdx == SliceIdx(i, r1, r) \X SliceIdx(j, c1, c)
Ind == Range(i, r1) \X Range(j, c1)

\* variant: the mean of a border tile is taken over a full window x window
AboveMean_Padded(p) ==
  image.px[p] * (window * window) > SumOver(CurIdx, image.px)

\* cur > tf.reduce_mean(cur), with the mean kept as sum / count
AboveMean(p) ==
  image.px[p] * Cardinality(CurIdx) > SumOver(CurIdx, image.px)

New == [p \in CurIdx |-> IF AboveMean(p) THEN White ELSE Black]

\* tf.tensor_scatter_nd_update(final, ind, new): one update per index
ScatterUpdate(out) == [p \in DOMAIN out |-> IF p \in Ind THEN New[p] ELSE out[p]]

Tile ==
  /\ fn = "adaptive_threshold" /\ pc = "inner"
  /\ j < c
  /\ Len(tiles) <= r * c
  /\ Ind = CurIdx
  /\ final' = ScatterUpdate(final)
  /\ tiles' = Append(tiles, [i |-> i, r1 |-> r1, j |-> j, c1 |-> c1])
  /\ j' = j + window
  /\ UNCHANGED <<fn, image, arg, pc, raised, i, r1, spre, sw, current_max, threshold>>

\* the scatter fails when the index list and the updates differ in length;
\* whether it accepts an empty index list is left to the tensor library
TileRejected ==
  /\ fn = "adaptive_threshold" /\ pc = "inner"
  /\ j < c
  /\ Ind # CurIdx \/ Ind = {}
  /\ Raise("scatter")
  /\ UNCHANGED <<fn, image, arg, final, i, j, r1, tiles, spre, sw, current_max, threshold>>

\* variant: the row index advances by one row instead of one window
RowEnd_ByOne ==
  /\ fn = "adaptive_threshold" /\ pc = "inner"
  /\ j >= c
  /\ i' = i + 1
  /\ pc' = "outer"
  /\ UNCHANGED <<fn, image, arg, raised, final, j, r1, tiles, spre, sw, current_max, threshold>>

\* the inner loop ends: i += window
RowEnd ==
  /\ fn = "adaptive_threshold" /\ pc = "inner"
  /\ j >= c
  /\ i' = i + window
  /\ pc' = "outer"
  /\ UNCHANGED <<fn, image, arg, raised, final, j, r1, tiles, spre, sw, current_max, threshold>>

AdaptiveReturn ==
  /\ fn = "adaptive_threshold" /\ pc = "outer"
  /\ i >= r
  /\ pc' = "done"
  /\ UNCHANGED <<fn, image, arg, raised, final, i, j, r1, tiles, spre, sw, current_max, threshold>>

\* -------------------------------------------------------- otsu_thresholding
\* tf.math.bincount(image), padded with zeros to 256 bins
Hist(img) == [k \in 0..(NumBins - 1) |-> Cardinality({p \in DOMAIN img.px : img.px[p] = k})]

\* The running sums of the loop  for i in range(1, 256): x[i] = x[i-1] + term[i]
\* as the list of the entries lo..hi, given the entry before lo (the range is
\* halved to keep the evaluation shallow; the entries are those of the loop).
RECURSIVE Running(_, _, _, _)
Running(term, lo, hi, before) ==
  IF lo > hi THEN <<>>
  ELSE IF lo = hi THEN <<before + term[lo]>>
  ELSE LET mid == (lo + hi) \div 2
           left == Running(term, lo, mid, before)
       IN left \o Running(term, mid + 1, hi, left[Len(left)])

AsList(seq) == [k \in 0..(NumBins - 1) |-> seq[k + 1]]

\* variant: the count of bin 0 is left out of the running count
Spre_SkipZero(hist) == AsList(<<0>> \o Running(hist, 1, NumBins - 1, 0))

\* spre[0] = int(hist[0]);  spre[i] = spre[i - 1] + int(hist[i])
Spre(hist) == AsList(<<hist[0]>> \o Running(hist, 1, NumBins - 1, hist[0]))

\* sw[0] = 0;  sw[i] = sw[i - 1] + (i * int(hist[i]))
Sw(hist) ==
  AsList(<<0>> \o Running([k \in 0..(NumBins - 1) |-> k * hist[k]], 1, NumBins - 1, 0))

\* exact rationals <<numerator, denominator>>, denominator > 0, in lowest terms
RECURSIVE GCD(_, _)
GCD(a, b) == IF b = 0 THEN a ELSE GCD(b, a % b)
Abs(a) == IF a < 0 THEN 0 - a ELSE a
Rat(n, d) == LET g == GCD(Abs(n), d) IN <<n \div g, d \div g>>
RatSub(a, b) == Rat(a[1] * b[2] - b[1] * a[2], a[2] * b[2])
RatMul(a, b) == Rat(a[1] * b[1], a[2] * b[2])
\* variant: a tie replaces the maximum
RatGreater_OrEqual(a, b) == a[1] * b[2] >= b[1] * a[2]
RatGreater(a, b) == a[1] * b[2] > b[1] * a[2]

total == r * c

OtsuCall ==
  /\ fn = "otsu_thresholding" /\ pc = "start"
  /\ IF Rank(image) # 2 /\ Rank(image) # 3
       THEN Raise("rank") /\ UNCHANGED <<spre, sw>>
     ELSE IF Len(image.shape) # 2
       THEN Raise("unpack") /\ UNCHANGED <<spre, sw>>
     ELSE /\ spre' = Spre(Hist(image))
          /\ sw' = Sw(Hist(image))
          /\ pc' = "scan"
          /\ UNCHANGED raised
  /\ current_max' = Zero
  /\ threshold' = 0
  /\ i' = 0
  /\ UNCHANGED <<fn, image, arg, final, j, r1, tiles>>

meanB == IF spre[i] = 0 THEN Zero ELSE Rat(sw[i], spre[i])
meanF == Rat(sw[NumBins - 1] - sw[i], total - spre[i])
\* variant: the squared distance of the means without the class weights
varBetween_Unweighted ==
  LET d == RatSub(meanB, meanF)
  IN RatMul(d, d)

varBetween ==
  LET d == RatSub(meanB, meanF)
  IN RatMul(Rat((total - spre[i]) * spre[i], 1), RatMul(d, d))

\* one iteration of: for i in range(256)
OtsuScan ==
  /\ fn = "otsu_thresholding" /\ pc = "scan"
  /\ i < NumBins
  /\ total - spre[i] # 0
  /\ IF RatGreater(varBetween, current_max)
       THEN current_max' = varBetween /\ threshold' = i
       ELSE UNCHANGED <<current_max, threshold>>
  /\ i' = i + 1
  /\ UNCHANGED <<fn, image, arg, pc, raised, final, j, r1, tiles, spre, sw>>

\* the loop ends (break, or range exhausted): final = tf.where(image > threshold, 255, 0)
OtsuReturn ==
  /\ fn = "otsu_thresholding" /\ pc = "scan"
  /\ IF i < NumBins THEN total - spre[i] = 0 ELSE TRUE
  /\ final' = WhereGreater(image, threshold)
  /\ pc' = "done"
  /\ UNCHANGED <<fn, image, arg, raised, i, j, r1, tiles, spre, sw, current_max, threshold>>

Next ==
  \/ BasicCall
  \/ AdaptiveCall \/ RowBegin \/ Tile \/ TileRejected \/ RowEnd \/ AdaptiveReturn
  \/ OtsuCall \/ OtsuScan \/ OtsuReturn

Spec == Init /\ [][Next]_vars

\* one function at a time
NextBasic == BasicCall
SpecBasic == Called({"basic_threshold"}) /\ [][NextBasic]_vars

NextAdaptive ==
  \/ AdaptiveCall \/ RowBegin \/ Tile \/ TileRejected \/ RowEnd \/ AdaptiveReturn
SpecAdaptive == Called({"adaptive_threshold"}) /\ [][NextAdaptive]_vars

NextOtsu == OtsuCall \/ OtsuScan \/ OtsuReturn
SpecOtsu == Called({"otsu_thresholding"}) /\ [][NextOtsu]_vars

\* ================================================================== claims
Binary(out) == \A p \in DOMAIN out : out[p] \in {Black, White}

\* a call of adaptive_threshold on an H x W image with a window in [1, min(H, W)]
ValidAdaptive ==
  /\ fn = "adaptive_threshold"
  /\ Rank(image) = 2
  /\ IsInt(arg)
  /\ window \in 1..Min(r, c)

\* C1: for every 2D image and every integer threshold t, basic_threshold
\* returns an array of the shape of the image whose element at p is 255 iff
\* the intensity at p is strictly greater than t, and 0 otherwise.
C1_BasicThreshold ==
  (fn = "basic_threshold" /\ Rank(image) = 2 /\ IsInt(arg) /\ pc # "start") =>
     /\ pc = "done"
     /\ DOMAIN final = Grid(r, c)
     /\ \A p \in Grid(r, c) :
          /\ final[p] = 255 <=> image.px[p] > arg.val
          /\ final[p] # 255 => final[p] = 0

\* an intensity equal to the threshold became 0 next to one that became 255
C1_Witness ==
  /\ fn = "basic_threshold" /\ Rank(image) = 2 /\ pc = "done"
  /\ \E p, q \in DOMAIN final :
       image.px[p] = arg.val /\ final[p] = 0 /\ final[q] = 255

\* the tile of the partition that holds position p: rows [i0, min(i0 + window, H))
\* and columns [j0, min(j0 + window, W)) for the multiples i0, j0 of window
TileOf(p) ==
  LET i0 == (p[1] \div window) * window
      j0 == (p[2] \div window) * window
  IN (i0..(Min(i0 + window, r) - 1)) \X (j0..(Min(j0 + window, c) - 1))

\* C2: for a window in [1, min(H, W)], when adaptive_threshold returns, the
\* output at p is 255 iff the intensity at p is strictly greater than the
\* arithmetic mean of the tile containing p, the mean of a border tile being
\* taken over the smaller region only; it is 0 otherwise.
C2_AdaptiveMean ==
  (ValidAdaptive /\ pc = "done") =>
     /\ DOMAIN final = Grid(r, c)
     /\ \A p \in Grid(r, c) :
          LET T == TileOf(p)
          IN /\ final[p] = 255 <=>
                  image.px[p] * Cardinality(T) > SumOver(T, image.px)
             /\ final[p] # 255 => final[p] = 0

\* a returned call with a border tile smaller than window x window, a pixel
\* above its tile's mean, and a pixel equal to the mean of a mixed tile
C2_Witness ==
  /\ ValidAdaptive /\ pc = "done"
  /\ \E p \in Grid(r, c) : Cardinality(TileOf(p)) < window * window
  /\ \E p \in Grid(r, c) : final[p] = 255
  /\ \E p \in Grid(r, c) :
       /\ image.px[p] * Cardinality(TileOf(p)) = SumOver(TileOf(p), image.px)
       /\ \E q \in TileOf(p) : image.px[q] # image.px[p]

\* the positions written for the k-th visited tile
Written(k) == Range(tiles[k].i, tiles[k].r1) \X Range(tiles[k].j, tiles[k].c1)

\* C3: for a window in [1, min(H, W)] the visited tiles partition the grid:
\* no call fails, no position outside the grid is written, no position is
\* written twice, and on return every position has been written exactly once.
C3_TilesPartition ==
  ValidAdaptive =>
     /\ pc # "raised"
     /\ \A k \in 1..Len(tiles) : Written(k) \subseteq Grid(r, c)
     /\ \A k, m \in 1..Len(tiles) : k # m => Written(k) \cap Written(m) = {}
     /\ pc = "done" =>
          \A p \in Grid(r, c) : Cardinality({k \in 1..Len(tiles) : p \in Written(k)}) = 1

\* a returned call that visited full tiles and smaller border tiles
C3_Witness ==
  /\ ValidAdaptive /\ pc = "done"
  /\ Len(tiles) >= 2
  /\ \E k, m \in 1..Len(tiles) : Cardinality(Written(k)) < Cardinality(Written(m))

\* C7 as stated: with window == min(H, W) exactly one tile is processed.
C7_OneTile ==
  (ValidAdaptive /\ window = Min(r, c) /\ pc = "done") => Len(tiles) = 1

\* C7 amended: with window == min(H, W) the call processes
\* ceil(max(H, W) / min(H, W)) tiles, which is one tile exactly when H = W.
C7_TilesAtMinWindow ==
  (ValidAdaptive /\ window = Min(r, c) /\ pc = "done") =>
     /\ Len(tiles) = (Max(r, c) + Min(r, c) - 1) \div Min(r, c)
     /\ Len(tiles) = 1 <=> r = c

\* a square image of more than one pixel, processed as one tile
C7_Witness ==
  /\ ValidAdaptive /\ window = Min(r, c) /\ pc = "done"
  /\ r = c /\ r > 1
  /\ Len(tiles) = 1

\* C9: for every integer window that passes window <= min(H, W), window <= 0
\* included, the column index j strictly increases on each iteration of the
\* inner loop and the row index i on each iteration of the outer loop.
C9_IndicesIncrease ==
  [][(Tile => j' > j) /\ (RowEnd => i' > i)]_vars

\* --- otsu_thresholding, stated on the image itself
Intensities == {image.px[p] : p \in DOMAIN image.px}
MinIntensity == CHOOSE v \in Intensities : \A u \in Intensities : v <= u
MaxIntensity == CHOOSE v \in Intensities : \A u \in Intensities : v >= u

Below(t) == {p \in DOMAIN image.px : image.px[p] <= t}
Above(t) == {p \in DOMAIN image.px : image.px[p] > t}

\* countAbove * countBelow * (meanBelow - meanAbove)^2 for a candidate t,
\* with meanBelow = 0 when nothing lies below
BetweenClassVariance(t) ==
  LET countBelow == Cardinality(Below(t))
      countAbove == Cardinality(Above(t))
      meanBelow == IF countBelow = 0 THEN Zero
                   ELSE Rat(SumOver(Below(t), image.px), countBelow)
      meanAbove == Rat(SumOver(Above(t), image.px), countAbove)
      diff == RatSub(meanBelow, meanAbove)
  IN RatMul(Rat(countAbove * countBelow, 1), RatMul(diff, diff))

Candidates == {t \in 0..(NumBins - 1) : Above(t) # {}}

OtsuReturned == fn = "otsu_thresholding" /\ Rank(image) = 2 /\ pc = "done"

\* C4: the threshold selected by otsu_thresholding is the lowest candidate t
\* (countAbove > 0) whose between-class variance equals the maximum over all
\* candidates, and the output is 255 exactly where the intensity is strictly
\* greater than that t.
C4_OtsuArgmax ==
  OtsuReturned =>
     /\ Candidates # {} =>
          LET best == BetweenClassVariance(threshold)
          IN /\ threshold \in Candidates
             /\ \A t \in Candidates :
                  LET v == BetweenClassVariance(t)
                  IN /\ ~RatGreater(v, best)
                     /\ t < threshold => RatGreater(best, v)
     /\ DOMAIN final = Grid(r, c)
     /\ \A p \in Grid(r, c) :
          final[p] = (IF image.px[p] > threshold THEN 255 ELSE 0)

\* a return where a higher candidate ties with the selected threshold and a
\* lower candidate separates the classes, but less well
C4_Witness ==
  /\ OtsuReturned
  /\ \E t \in Candidates :
       /\ t > threshold
       /\ BetweenClassVariance(t) = BetweenClassVariance(threshold)
  /\ \E t \in Candidates :
       /\ t < threshold
       /\ RatGreater(BetweenClassVariance(t), Zero)
       /\ RatGreater(BetweenClassVariance(threshold), BetweenClassVariance(t))

\* C5: each of the three functions accepts a rank-3 (H x W x C) image and
\* returns an H x W binary output without raising an error.
C5_Rank3Accepted ==
  (/\ Rank(image) = 3
   /\ fn = "basic_threshold" => IsInt(arg)
   /\ fn = "adaptive_threshold" => IsInt(arg) /\ window \in 1..Min(r, c)
   /\ pc # "start")
  => /\ pc # "raised"
     /\ pc = "done" => DOMAIN final = Grid(r, c) /\ Binary(final)

\* C6: adaptive_threshold raises when window is not an integer or when
\* window > min(H, W), and basic_threshold raises when threshold is not an
\* integer; the error is raised before any tile or pixel is processed, so
\* there is no output, partial or complete.
C6_RaisedBeforeWork ==
  (Rank(image) \in {2, 3} /\ pc # "start") =>
     /\ (fn = "adaptive_threshold" /\ (~IsInt(arg) \/ window > Min(r, c))) =>
          /\ pc = "raised"
          /\ ~IsInt(arg) => raised = "window_type"
          /\ (IsInt(arg) /\ Rank(image) = 2) => raised = "window_size"
          /\ raised # NoError
          /\ final = NoOutput /\ tiles = <<>>
     /\ (fn = "basic_threshold" /\ ~IsInt(arg)) =>
          /\ pc = "raised" /\ raised = "threshold_type"
          /\ final = NoOutput

\* a window that fits one dimension of the image but not the other is refused
C6_Witness ==
  /\ fn = "adaptive_threshold" /\ Rank(image) = 2 /\ IsInt(arg)
  /\ window > Min(r, c) /\ window <= Max(r, c)
  /\ pc = "raised" /\ raised = "window_size"
  /\ final = NoOutput /\ tiles = <<>>

\* half the pixels at intensity 10, the other half at 240
HalfHalf ==
  /\ Intensities = {10, 240}
  /\ Cardinality({p \in DOMAIN image.px : image.px[p] = 10})
       = Cardinality({p \in DOMAIN image.px : image.px[p] = 240})

Separated ==
  \A p \in DOMAIN image.px :
     /\ image.px[p] = 10 => final[p] = 0
     /\ image.px[p] = 240 => final[p] = 255

\* C8 as stated: on a half-10, half-240 image the selected threshold t is
\* strictly between 10 and 240 and the output separates the two clusters.
C8_StrictlyBetween ==
  (OtsuReturned /\ HalfHalf) =>
     /\ 10 < threshold /\ threshold < 240
     /\ Separated

\* C8 amended: on a half-10, half-240 image the selected threshold is 10
\* itself, the lowest of the tied candidates (10 <= t < 240), and the output
\* separates the two clusters.
C8_LowestTied ==
  (OtsuReturned /\ HalfHalf) =>
     /\ threshold = 10
     /\ Separated

C8_Witness ==
  /\ OtsuReturned /\ HalfHalf
  /\ Cardinality(DOMAIN image.px) >= 4
  /\ threshold = 10

\* C10: on an image with at least two distinct intensities the selected
\* threshold t satisfies min <= t < max, so the output holds a 0 and a 255;
\* on a constant image the scan never updates the threshold, which stays 0.
C10_ThresholdInRange ==
  (fn = "otsu_thresholding" /\ Rank(image) = 2 /\ pc # "start") =>
     /\ pc # "raised"
     /\ Cardinality(Intensities) = 1 => threshold = 0 /\ current_max = Zero
     /\ (Cardinality(Intensities) >= 2 /\ pc = "done") =>
          /\ MinIntensity <= threshold /\ threshold < MaxIntensity
          /\ \E p \in DOMAIN final : final[p] = 0
          /\ \E p \in DOMAIN final : final[p] = 255

\* three intensities, the threshold strictly above the lowest one
C10_Witness ==
  /\ OtsuReturned
  /\ Cardinality(Intensities) = 3
  /\ MinIntensity < threshold /\ threshold < MaxIntensity
====
